---- MODULE Spec2Model ----
(***************************************************************************)
(* JythonMX (src/jythonmx.py): MBeanAdapter, NotificationTrigger and the   *)
(* synchronised decorator, as a state machine of threads that call the     *)
(* adapter's operations.  Every thread executes one call at a time; a call *)
(* is a sequence of steps, one per statement that reads or writes shared   *)
(* state or takes a lock.                                                  *)
(***************************************************************************)
EXTENDS Integers, Sequences, FiniteSets, TLC

\* ---------------------------------------------------------------- bounds
\* Largest sequence number an adapter hands out in a run.
MaxId == 2
\* Number of NotificationTrigger objects that can be alive at once.
MaxObjs == 3
\* Longest list of names or entries passed to getAttributes / setAttributes.
MaxBatch == 2
\* Most parameter declarations given to one @args.
MaxArgs == 2

Threads == {"t1", "t2"}
Adapters == {"a1", "a2"}
RegNames == {"n1", "n2"}
\* The notification slots of the target type (DemoMBean.test, .test2),
\* in the order dir() lists them.
Slots == <<"test", "test2">>
Objs == 1..MaxObjs

None == "None"
NoThread == "NoThread"
\* __class__.__name__ of the target type, the source the adapter wires.
ClassName == "T"

\* The functions decorated with @synchronised.
SyncFuns == {"register", "unregister", "beaninfo", "notificationinfo", "_nextId"}

\* Shapes of the target type (one property, one public method):
\*   void0     def m(self)                       (valid, returns Void)
\*   typed1    @args(T) def m(self, x)           (valid)
\*   untagged1 def m(self, x)                    (TypeError: no @args)
\*   badcount  @args(T, T) def m(self, x)        (ValueError: count)
\*   badattr   the property's type has no __name__ (AttributeError)
Shapes == {"void0", "typed1", "untagged1", "badcount", "badattr"}

VARIABLES
    registered,        \* MBeanAdapter._registered, per adapter
    name,              \* MBeanAdapter._name, per adapter
    beaninfo,          \* MBeanAdapter._beaninfo, per adapter
    notificationinfo,  \* MBeanAdapter._notificationinfo, per adapter
    currentId,         \* MBeanAdapter._currentId, per adapter
    registry,          \* the platform MBean server: name -> bound adapter
    delivered,         \* notifications handed to NotificationBroadcasterSupport
    chSend,            \* NotificationTrigger._sendNotification, per object
    chNextId,          \* NotificationTrigger._nextId, per object
    chSource,          \* NotificationTrigger._source, per object
    slotObj,           \* the trigger object bound to each class attribute
    shape,             \* the members the target type declares
    tags,              \* the __returns__ and __args__ attributes of functions
    locks,             \* the threading.Lock of each synchronised function
    allocated,         \* history: the numbers _nextId returned, in order
    failed,            \* history: a description request of the adapter raised
    reflected,         \* history: how often the target was reflected (2: more)
    bean,              \* the target object: its instance attributes
    written,           \* history: the value last passed to each setter
    pc,                \* position of each thread
    ctx                \* locals of the call each thread executes

adapterVars == <<registered, name, beaninfo, notificationinfo, currentId>>
hostVars == <<registry, delivered, allocated, failed, reflected>>
chanVars == <<chSend, chNextId, chSource>>
typeVars == <<slotObj, shape, tags>>
targetVars == <<bean, written>>
vars == <<registered, name, beaninfo, notificationinfo, currentId, registry,
          delivered, chSend, chNextId, chSource, slotObj, shape, tags,
          locks, allocated, failed, reflected, bean, written, pc, ctx>>

\* ------------------------------------------------------------- helpers
\* Python truthiness of the values a wiring field can hold.
Truthy(v) == v # None /\ v # ""

NoInfo == [set |-> FALSE, ops |-> None]

\* ------------------------------------------------------- values and types
\* A Python value is a pair <<type name, text>>.
PyNone == <<"NoneType", "None">>
\* No such attribute / no value.
Absent == <<"absent", "">>
\* The values callers pass to the adapter.
Values == {<<"str", "x">>, <<"str", "1">>, <<"int", "1">>}

\* An exception object: its class, the code that created it and, for the
\* JMX exceptions that wrap another one, the class and creator of the cause.
NoCause == <<None, None>>
NoErr == [kind |-> None, by |-> None, cause |-> NoCause]
Exc(kind, by) == [kind |-> kind, by |-> by, cause |-> NoCause]
\* MBeanException(exc), ReflectionException(exc)
Wrap(kind, e) == [kind |-> kind, by |-> "adapter", cause |-> <<e.kind, e.by>>]

\* The target type of the dispatch operations (after DemoMBean):
\*   strValue   property(fget, fset) on _strValue          (default type)
\*   intValue   TypedProperty(Integer, fget) on _intValue  (read-only)
\*   boolValue  TypedProperty(Boolean, fget, fset) on _boolValue
\*   broken     property whose getter and setter can raise ValueError
\*   demo       def demo(self): returns None
\*   size       def size(self): returns an int, no @returns
\*   hello      @returns(String) @args(String) def hello(self, name)
\*   parse      @returns(Integer) @args(String) def parse(self, s): return s
\* bad is a name the type does not define.
Properties == {"strValue", "intValue", "boolValue", "broken"}
Methods == {"demo", "size", "hello", "parse"}
AttrNames == {"strValue", "intValue", "boolValue", "broken", "bad"}
InvokeNames == {"demo", "size", "hello", "parse", "strValue", "broken", "bad"}
\* The lists of names, of (name, value) entries and of arguments a call gets.
SeqsUpTo(S, n) == UNION {[1..k -> S] : k \in 0..n}
NameLists == SeqsUpTo(AttrNames, MaxBatch)
\* The entries of a setAttributes list: a writable attribute, a read-only
\* one and a name the type does not define.
BatchItems == {"strValue", "intValue", "bad"} \X {<<"str", "x">>, <<"int", "1">>}
ItemLists == SeqsUpTo(BatchItems, MaxBatch)
ArgLists == SeqsUpTo(Values, 1)
Fields == {"_strValue", "_intValue", "_boolValue", "bad"}

FieldOfProperty(n) ==
    CASE n = "strValue" -> "_strValue"
      [] n = "intValue" -> "_intValue"
      [] n = "boolValue" -> "_boolValue"
      [] OTHER -> "bad"

\* fset is given
Writable(n) == n \in {"strValue", "boolValue", "broken"}

\* DemoMBean('x', 1, ...): the instance attributes after __init__.
Bean0 == [f \in Fields |->
            CASE f = "_strValue" -> <<"str", "x">>
              [] f = "_intValue" -> <<"int", "1">>
              [] f = "_boolValue" -> <<"int", "1">>
              [] OTHER -> Absent]

\* type_(value): the java.lang constructors as Jython applies them.  The
\* result is a Java object, or a raise (result Absent).
Coerce(type, v) ==
    CASE type = "String" ->
           IF v[1] = "str" THEN <<"java.lang.String", v[2]>> ELSE Absent
      [] type = "Integer" ->
           IF v[1] = "int" \/ (v[1] = "str" /\ v[2] = "1")
             THEN <<"java.lang.Integer", v[2]>> ELSE Absent
      [] type = "Boolean" ->
           IF v[1] = "int" THEN <<"java.lang.Boolean", "true">>
           ELSE IF v[1] = "str" THEN <<"java.lang.Boolean", "false">>
           ELSE Absent
      [] OTHER -> Absent

\* The exception a failed coercion raises.
CoerceError(type, v) ==
    IF type = "Integer" /\ v[1] = "str"
      THEN Exc("NumberFormatException", "coercion")
      ELSE Exc("TypeError", "coercion")

\* ------------------------------------------------------------- tagging
\* The functions that get tagged, the types they are tagged with and the
\* entries of an @args: a bare type <<T>> or a pair <<T, description>>.
Funs == {"f", "g"}
TagTypes == {"String", "Integer"}
ArgEntries == {<<"String">>, <<"Integer", "Age">>}
\* The argument tuples returns(...) and args(...) are called with.
ReturnsCalls == UNION {[1..k -> TagTypes] : k \in 0..2}
ArgsCalls == UNION {[1..k -> ArgEntries] : k \in 0..MaxArgs}
\* A function without __returns__ and without __args__.
NoTags == [returns |-> None, hasArgs |-> FALSE, args |-> <<>>]

\* The locals of a call.  pre, old, base and healed are history: what the
\* call found when it began.
NoPre == [reg |-> FALSE, nm |-> None, bound |-> [n \in RegNames |-> None]]

Ctx0 == [op |-> None, a |-> None, nm |-> None, o |-> 0, objs |-> <<>>,
         wi |-> 0, inReg |-> FALSE, inBI |-> FALSE, exc |-> None,
         tmp |-> 0, seq |-> 0, dops |-> None, ret |-> NoInfo, val |-> None,
         pre |-> NoPre, old |-> <<None, None, None>>, base |-> 0,
         healed |-> FALSE, hadInfo |-> FALSE,
         \* a tagger call: the function, the decorator arguments, the
         \* function returned and the tags the call found
         fun |-> None, given |-> <<>>, gave |-> None,
         tags0 |-> [f \in Funs |-> NoTags],
         \* locals of the dispatch operations
         names |-> <<>>, items |-> <<>>, i |-> 0, out |-> <<>>,
         args |-> <<>>, arg |-> Absent, type |-> None, raw |-> Absent, inBatch |-> FALSE,
         \* what the wrapped function raised or returned (history), what
         \* its caller receives, and the target state the call found
         bexc |-> NoErr, bret |-> Absent, err |-> NoErr, res |-> Absent,
         log |-> <<>>, called |-> <<>>, bean0 |-> Bean0]

\* ---------------------------------------------------------- synchronised
\* Mutant: all synchronised functions share one lock.
LockOfShared(fun, a) == "register"

\* lock = threading.Lock() is created once per decorated function: the lock
\* of a function is shared by all instances and by no other function.
LockOf(fun, a) == fun


\* Mutant: acquire does not wait for the lock.
SyncCanAcquireAlways(l) == TRUE

\* lock.acquire() blocks until the lock is free.
SyncCanAcquire(l) == locks[l] = NoThread

SyncAcquire(l, t) == [locks EXCEPT ![l] = t]

\* Mutant: the lock is released after a return only, not after a raise.
SyncReleaseOnReturn(l, exc) ==
    IF exc = None THEN [locks EXCEPT ![l] = NoThread] ELSE locks

\* finally: lock.release(), after a return and after a raise alike.
SyncRelease(l, exc) == [locks EXCEPT ![l] = NoThread]

Init ==
    /\ registered = [a \in Adapters |-> FALSE]
    /\ name = [a \in Adapters |-> None]
    /\ beaninfo = [a \in Adapters |-> NoInfo]
    /\ notificationinfo = [a \in Adapters |-> FALSE]
    /\ currentId = [a \in Adapters |-> 0]
    /\ registry = [n \in RegNames |-> None]
    /\ delivered = [a \in Adapters |-> <<>>]
    /\ chSend = [o \in Objs |-> None]
    /\ chNextId = [o \in Objs |-> None]
    /\ chSource = [o \in Objs |-> None]
    /\ slotObj = [s \in 1..Len(Slots) |-> s]
    /\ shape \in Shapes
    /\ tags = [f \in Funs |-> NoTags]
    /\ locks = [l \in SyncFuns |-> NoThread]
    /\ allocated = [a \in Adapters |-> <<>>]
    /\ failed = [a \in Adapters |-> FALSE]
    /\ reflected = [a \in Adapters |-> 0]
    /\ bean = Bean0
    /\ written = [n \in AttrNames |-> Absent]
    /\ pc = [t \in Threads |-> "idle"]
    /\ ctx = [t \in Threads |-> Ctx0]

Goto(t, l) == pc' = [pc EXCEPT ![t] = l]
SetCtx(t, r) == ctx' = [ctx EXCEPT ![t] = r]

\* A call returns or raises to its caller: the result stays visible in ctx
\* until the thread takes it (Return).
Return(t) ==
    /\ pc[t] = "done"
    /\ Goto(t, "idle")
    /\ SetCtx(t, Ctx0)
    /\ UNCHANGED <<targetVars, adapterVars, hostVars, chanVars, typeVars, locks>>

Pre(a) == [reg |-> registered[a], nm |-> name[a], bound |-> registry]

\* ------------------------------------------------- MBeanAdapter.register
\* Mutant: register never finds the adapter registered.
AlreadyRegisteredNever(a) == FALSE

\* if self._registered:
AlreadyRegistered(a) == registered[a]

RegisterCall(t, a, nm) ==
    /\ pc[t] = "idle"
    /\ Goto(t, "reg_acq")
    /\ SetCtx(t, [Ctx0 EXCEPT !.op = "register", !.a = a, !.nm = nm,
                              !.pre = Pre(a)])
    /\ UNCHANGED <<targetVars, adapterVars, hostVars, chanVars, typeVars, locks>>

RegisterAcquire(t) ==
    /\ pc[t] = "reg_acq"
    /\ SyncCanAcquire(LockOf("register", ctx[t].a))
    /\ locks' = SyncAcquire(LockOf("register", ctx[t].a), t)
    /\ Goto(t, "reg_check")
    /\ UNCHANGED <<targetVars, adapterVars, hostVars, chanVars, typeVars, ctx>>

\* if self._registered: raise RuntimeError('Adapter already registered')
RegisterCheck(t) ==
    /\ pc[t] = "reg_check"
    /\ IF AlreadyRegistered(ctx[t].a)
         THEN /\ Goto(t, "reg_rel")
              /\ SetCtx(t, [ctx[t] EXCEPT !.exc = "RuntimeError"])
         ELSE /\ Goto(t, "reg_name")
              /\ UNCHANGED ctx
    /\ UNCHANGED <<targetVars, adapterVars, hostVars, chanVars, typeVars, locks>>

\* self._name = ObjectName(name)
RegisterName(t) ==
    /\ pc[t] = "reg_name"
    /\ name' = [name EXCEPT ![ctx[t].a] = ctx[t].nm]
    /\ Goto(t, "reg_host")
    /\ UNCHANGED <<targetVars, registered, beaninfo, notificationinfo, currentId,
                   hostVars, chanVars, typeVars, locks, ctx>>

\* server.registerMBean(self, self._name): the server first asks the bean
\* for its MBeanInfo (getMBeanInfo, run by the registering thread) ...
RegisterHost(t) ==
    /\ pc[t] = "reg_host"
    /\ Goto(t, "bi_acq")
    /\ SetCtx(t, [ctx[t] EXCEPT !.inReg = TRUE, !.nm = name[ctx[t].a]])
    /\ UNCHANGED <<targetVars, adapterVars, hostVars, chanVars, typeVars, locks>>

\* ... and then binds it, unless the name is taken.
RegisterBind(t) ==
    /\ pc[t] = "reg_bind"
    /\ LET a == ctx[t].a
           n == ctx[t].nm
       IN IF n # None /\ registry[n] = None
            THEN /\ registry' = [registry EXCEPT ![n] = a]
                 /\ Goto(t, "reg_flag")
                 /\ UNCHANGED ctx
            ELSE /\ Goto(t, "reg_rel")
                 /\ SetCtx(t, [ctx[t] EXCEPT !.exc = "HostError"])
                 /\ UNCHANGED registry
    /\ UNCHANGED <<targetVars, adapterVars, delivered, allocated, failed, reflected, chanVars, typeVars, locks>>

\* self._registered = True
RegisterFlag(t) ==
    /\ pc[t] = "reg_flag"
    /\ registered' = [registered EXCEPT ![ctx[t].a] = TRUE]
    /\ Goto(t, "reg_rel")
    /\ UNCHANGED <<targetVars, name, beaninfo, notificationinfo, currentId,
                   hostVars, chanVars, typeVars, locks, ctx>>

RegisterRelease(t) ==
    /\ pc[t] = "reg_rel"
    /\ locks' = SyncRelease(LockOf("register", ctx[t].a), ctx[t].exc)
    /\ Goto(t, "done")
    /\ UNCHANGED <<targetVars, adapterVars, hostVars, chanVars, typeVars, ctx>>

\* ----------------------------------------------- MBeanAdapter.unregister
\* Mutant: unregister never finds the adapter unregistered.
NotRegisteredNever(a) == FALSE

\* if not self._registered:
NotRegistered(a) == ~registered[a]

UnregisterCall(t, a) ==
    /\ pc[t] = "idle"
    /\ Goto(t, "unreg_acq")
    /\ SetCtx(t, [Ctx0 EXCEPT !.op = "unregister", !.a = a, !.pre = Pre(a)])
    /\ UNCHANGED <<targetVars, adapterVars, hostVars, chanVars, typeVars, locks>>

UnregisterAcquire(t) ==
    /\ pc[t] = "unreg_acq"
    /\ SyncCanAcquire(LockOf("unregister", ctx[t].a))
    /\ locks' = SyncAcquire(LockOf("unregister", ctx[t].a), t)
    /\ Goto(t, "unreg_check")
    /\ UNCHANGED <<targetVars, adapterVars, hostVars, chanVars, typeVars, ctx>>

\* if not self._registered: raise RuntimeError('Adapter not registered')
\* assert self._name
UnregisterCheck(t) ==
    /\ pc[t] = "unreg_check"
    /\ LET a == ctx[t].a
       IN IF NotRegistered(a)
            THEN /\ Goto(t, "unreg_rel")
                 /\ SetCtx(t, [ctx[t] EXCEPT !.exc = "RuntimeError"])
            ELSE IF name[a] = None
                   THEN /\ Goto(t, "unreg_rel")
                        /\ SetCtx(t, [ctx[t] EXCEPT !.exc = "AssertionError"])
                   ELSE /\ Goto(t, "unreg_host")
                        /\ UNCHANGED ctx
    /\ UNCHANGED <<targetVars, adapterVars, hostVars, chanVars, typeVars, locks>>

\* server.unregisterMBean(self._name)
UnregisterHost(t) ==
    /\ pc[t] = "unreg_host"
    /\ LET a == ctx[t].a
           n == name[a]
       IN IF n # None /\ registry[n] = a
            THEN /\ registry' = [registry EXCEPT ![n] = None]
                 /\ Goto(t, "unreg_name")
                 /\ UNCHANGED ctx
            ELSE /\ Goto(t, "unreg_rel")
                 /\ SetCtx(t, [ctx[t] EXCEPT !.exc = "HostError"])
                 /\ UNCHANGED registry
    /\ UNCHANGED <<targetVars, adapterVars, delivered, allocated, failed, reflected, chanVars, typeVars, locks>>

\* self._name = None
UnregisterName(t) ==
    /\ pc[t] = "unreg_name"
    /\ name' = [name EXCEPT ![ctx[t].a] = None]
    /\ Goto(t, "unreg_flag")
    /\ UNCHANGED <<targetVars, registered, beaninfo, notificationinfo, currentId,
                   hostVars, chanVars, typeVars, locks, ctx>>

\* self._registered = False
UnregisterFlag(t) ==
    /\ pc[t] = "unreg_flag"
    /\ registered' = [registered EXCEPT ![ctx[t].a] = FALSE]
    /\ Goto(t, "unreg_rel")
    /\ UNCHANGED <<targetVars, name, beaninfo, notificationinfo, currentId,
                   hostVars, chanVars, typeVars, locks, ctx>>

UnregisterRelease(t) ==
    /\ pc[t] = "unreg_rel"
    /\ locks' = SyncRelease(LockOf("unregister", ctx[t].a), ctx[t].exc)
    /\ Goto(t, "done")
    /\ UNCHANGED <<targetVars, adapterVars, hostVars, chanVars, typeVars, ctx>>

\* ------------------------------------------- NotificationTrigger setters
\* if self._sendNotification: raise RuntimeError("Can't set ... twice")
\* Mutant: a set field is overwritten.
SetterRaisesNever(cur) == FALSE

\* The three setters test the truth value of the field they guard.
SetterRaises(cur) == Truthy(cur)

\* The three wiring fields of a trigger object.
Wiring(o) == <<chSend[o], chNextId[o], chSource[o]>>

\* The values user code can assign: the bound sendNotification and _nextId
\* methods of an adapter, and a source string, which may be empty.
SourceValues == {"", ClassName}

\* trigger.sendNotification = value  (_setSendNotification)
SetSendNotification(t, s, v) ==
    /\ pc[t] = "idle"
    /\ LET o == slotObj[s]
       IN /\ IF SetterRaises(chSend[o])
               THEN /\ SetCtx(t, [Ctx0 EXCEPT !.op = "setSend", !.o = o, !.val = v,
                                              !.old = Wiring(o),
                                              !.exc = "RuntimeError"])
                    /\ UNCHANGED chSend
               ELSE /\ SetCtx(t, [Ctx0 EXCEPT !.op = "setSend", !.o = o, !.val = v,
                                              !.old = Wiring(o)])
                    /\ chSend' = [chSend EXCEPT ![o] = v]
    /\ Goto(t, "done")
    /\ UNCHANGED <<targetVars, adapterVars, hostVars, chNextId, chSource, typeVars, locks>>

\* trigger.nextId = value  (_setNextId)
SetNextId(t, s, v) ==
    /\ pc[t] = "idle"
    /\ LET o == slotObj[s]
       IN /\ IF SetterRaises(chNextId[o])
               THEN /\ SetCtx(t, [Ctx0 EXCEPT !.op = "setNextId", !.o = o, !.val = v,
                                              !.old = Wiring(o),
                                              !.exc = "RuntimeError"])
                    /\ UNCHANGED chNextId
               ELSE /\ SetCtx(t, [Ctx0 EXCEPT !.op = "setNextId", !.o = o, !.val = v,
                                              !.old = Wiring(o)])
                    /\ chNextId' = [chNextId EXCEPT ![o] = v]
    /\ Goto(t, "done")
    /\ UNCHANGED <<targetVars, adapterVars, hostVars, chSend, chSource, typeVars, locks>>

\* trigger.source = value  (_setSource)
SetSource(t, s, v) ==
    /\ pc[t] = "idle"
    /\ LET o == slotObj[s]
       IN /\ IF SetterRaises(chSource[o])
               THEN /\ SetCtx(t, [Ctx0 EXCEPT !.op = "setSource", !.o = o, !.val = v,
                                              !.old = Wiring(o),
                                              !.exc = "RuntimeError"])
                    /\ UNCHANGED chSource
               ELSE /\ SetCtx(t, [Ctx0 EXCEPT !.op = "setSource", !.o = o, !.val = v,
                                              !.old = Wiring(o)])
                    /\ chSource' = [chSource EXCEPT ![o] = v]
    /\ Goto(t, "done")
    /\ UNCHANGED <<targetVars, adapterVars, hostVars, chSend, chNextId, typeVars, locks>>

\* ------------------------------------------------- MBeanAdapter.beaninfo
\* The outcome of attributes(): classname(type_) raises on a property whose
\* declared type has no __module__ or __name__.
AttributesError(kind) == IF kind = "badattr" THEN "AttributeError" ELSE None

\* Mutant: operations() accepts every method.
OperationsErrorNone(kind) == None

\* The outcome of operations() on a method of the given shape.
OperationsError(kind) ==
    CASE kind = "untagged1" -> "TypeError"
      [] kind = "badcount" -> "ValueError"
      [] OTHER -> None

\* The type is in order as far as adapter a is concerned: its members can be
\* described and none of its triggers is wired to anything but a.
TypeFixedFor(a) ==
    /\ AttributesError(shape) = None
    /\ OperationsError(shape) = None
    /\ \A s \in 1..Len(Slots) :
         /\ chSend[slotObj[s]] \in {None, a}
         /\ chNextId[slotObj[s]] \in {None, a}
         /\ chSource[slotObj[s]] \in {None, ClassName}

\* getMBeanInfo: return self.beaninfo
BeaninfoCall(t, a) ==
    /\ pc[t] = "idle"
    /\ Goto(t, "bi_acq")
    /\ SetCtx(t, [Ctx0 EXCEPT !.op = "describe", !.a = a,
                              !.healed = (failed[a] /\ TypeFixedFor(a)),
                              !.hadInfo = beaninfo[a].set])
    /\ UNCHANGED <<targetVars, adapterVars, hostVars, chanVars, typeVars, locks>>

BeaninfoAcquire(t) ==
    /\ pc[t] = "bi_acq"
    /\ SyncCanAcquire(LockOf("beaninfo", ctx[t].a))
    /\ locks' = SyncAcquire(LockOf("beaninfo", ctx[t].a), t)
    /\ Goto(t, "bi_check")
    /\ UNCHANGED <<targetVars, adapterVars, hostVars, chanVars, typeVars, ctx>>

\* Mutant: the short path is never taken.
BeaninfoMemoizedNever(a) == FALSE

\* Short path: if self._beaninfo: return self._beaninfo
BeaninfoMemoized(a) == beaninfo[a].set

BeaninfoCheck(t) ==
    /\ pc[t] = "bi_check"
    /\ IF BeaninfoMemoized(ctx[t].a)
         THEN /\ Goto(t, "bi_rel")
              /\ SetCtx(t, [ctx[t] EXCEPT !.ret = beaninfo[ctx[t].a]])
         ELSE /\ Goto(t, "bi_attrs")
              /\ UNCHANGED ctx
    /\ UNCHANGED <<targetVars, adapterVars, hostVars, chanVars, typeVars, locks>>

\* tuple(attributes()): the reflection of the target type begins.
BeaninfoAttributes(t) ==
    /\ pc[t] = "bi_attrs"
    /\ IF AttributesError(shape) = None
         THEN /\ Goto(t, "bi_ops")
              /\ UNCHANGED ctx
         ELSE /\ Goto(t, "bi_rel")
              /\ SetCtx(t, [ctx[t] EXCEPT !.exc = AttributesError(shape)])
    /\ reflected' = [reflected EXCEPT ![ctx[t].a] = IF @ = 0 THEN 1 ELSE 2]
    /\ UNCHANGED <<targetVars, adapterVars, registry, delivered, allocated,
                   failed, chanVars, typeVars, locks>>

\* tuple(operations())
BeaninfoOperations(t) ==
    /\ pc[t] = "bi_ops"
    /\ IF OperationsError(shape) = None
         THEN /\ Goto(t, "bi_ninfo")
              /\ SetCtx(t, [ctx[t] EXCEPT !.dops = shape])
         ELSE /\ Goto(t, "bi_rel")
              /\ SetCtx(t, [ctx[t] EXCEPT !.exc = OperationsError(shape)])
    /\ UNCHANGED <<targetVars, adapterVars, hostVars, chanVars, typeVars, locks>>

\* self.notificationinfo, the last argument of MBeanInfo(...)
BeaninfoNotifications(t) ==
    /\ pc[t] = "bi_ninfo"
    /\ Goto(t, "ni_acq")
    /\ SetCtx(t, [ctx[t] EXCEPT !.inBI = TRUE])
    /\ UNCHANGED <<targetVars, adapterVars, hostVars, chanVars, typeVars, locks>>

\* Mutant: the compiled description is not kept.
StoredInfoNone(ops) == NoInfo

\* MBeanInfo(...) of the operations found.
StoredInfo(ops) == [set |-> TRUE, ops |-> ops]

\* self._beaninfo = MBeanInfo(...); return self._beaninfo
BeaninfoStore(t) ==
    /\ pc[t] = "bi_store"
    /\ LET info == StoredInfo(ctx[t].dops)
       IN /\ beaninfo' = [beaninfo EXCEPT ![ctx[t].a] = info]
          /\ SetCtx(t, [ctx[t] EXCEPT !.ret = info])
    /\ Goto(t, "bi_rel")
    /\ UNCHANGED <<targetVars, registered, name, notificationinfo, currentId,
                   hostVars, chanVars, typeVars, locks>>

\* Leaving beaninfo: to the caller of getMBeanInfo, or back into
\* registerMBean, which fails when getMBeanInfo raised.
BeaninfoRelease(t) ==
    /\ pc[t] = "bi_rel"
    /\ locks' = SyncRelease(LockOf("beaninfo", ctx[t].a), ctx[t].exc)
    /\ IF ctx[t].inReg
         THEN IF ctx[t].exc = None
                THEN /\ Goto(t, "reg_bind")
                     /\ UNCHANGED ctx
                ELSE /\ Goto(t, "reg_rel")
                     /\ SetCtx(t, [ctx[t] EXCEPT !.exc = "HostError"])
         ELSE /\ Goto(t, "done")
              /\ UNCHANGED ctx
    /\ failed' = [failed EXCEPT ![ctx[t].a] = @ \/ ctx[t].exc # None]
    /\ UNCHANGED <<targetVars, adapterVars, registry, delivered, allocated, reflected, chanVars, typeVars>>

\* ----------------------------------------- MBeanAdapter.notificationinfo
\* getNotificationInfo: return self.notificationinfo
NotificationinfoCall(t, a) ==
    /\ pc[t] = "idle"
    /\ Goto(t, "ni_acq")
    /\ SetCtx(t, [Ctx0 EXCEPT !.op = "notifinfo", !.a = a])
    /\ UNCHANGED <<targetVars, adapterVars, hostVars, chanVars, typeVars, locks>>

NotificationinfoAcquire(t) ==
    /\ pc[t] = "ni_acq"
    /\ SyncCanAcquire(LockOf("notificationinfo", ctx[t].a))
    /\ locks' = SyncAcquire(LockOf("notificationinfo", ctx[t].a), t)
    /\ Goto(t, "ni_check")
    /\ UNCHANGED <<targetVars, adapterVars, hostVars, chanVars, typeVars, ctx>>

\* Short path: if self._notificationinfo: return self._notificationinfo
\* Otherwise filter(..., list_attributes(cls)) lists the trigger objects of
\* the type, all at once and in dir() order.
NotificationinfoCheck(t) ==
    /\ pc[t] = "ni_check"
    /\ IF notificationinfo[ctx[t].a]
         THEN /\ Goto(t, "ni_rel")
              /\ UNCHANGED ctx
         ELSE /\ Goto(t, "ni_wire")
              /\ SetCtx(t, [ctx[t] EXCEPT
                     !.objs = [i \in 1..Len(Slots) |-> slotObj[i]], !.wi = 0])
    /\ UNCHANGED <<targetVars, adapterVars, hostVars, chanVars, typeVars, locks>>

\* attr.sendNotification = self.sendNotification
\* attr.nextId = self._nextId
\* attr.source = self._bean.__class__.__name__
\* One assignment per step: wi counts the assignments made so far.
NotificationinfoWire(t) ==
    /\ pc[t] = "ni_wire"
    /\ LET a == ctx[t].a
           o == ctx[t].objs[(ctx[t].wi \div 3) + 1]
           f == ctx[t].wi % 3
           cur == CASE f = 0 -> chSend[o] [] f = 1 -> chNextId[o] [] OTHER -> chSource[o]
       IN IF SetterRaises(cur)
            THEN /\ Goto(t, "ni_rel")
                 /\ SetCtx(t, [ctx[t] EXCEPT !.exc = "RuntimeError"])
                 /\ UNCHANGED chanVars
            ELSE /\ chSend' = IF f = 0 THEN [chSend EXCEPT ![o] = a] ELSE chSend
                 /\ chNextId' = IF f = 1 THEN [chNextId EXCEPT ![o] = a] ELSE chNextId
                 /\ chSource' = IF f = 2 THEN [chSource EXCEPT ![o] = ClassName]
                                         ELSE chSource
                 /\ SetCtx(t, [ctx[t] EXCEPT !.wi = @ + 1])
                 /\ IF ctx[t].wi + 1 = 3 * Len(ctx[t].objs)
                      THEN Goto(t, "ni_store")
                      ELSE UNCHANGED pc
    /\ UNCHANGED <<targetVars, adapterVars, hostVars, typeVars, locks>>

\* self._notificationinfo = (notificationinfo, )
NotificationinfoStore(t) ==
    /\ pc[t] = "ni_store"
    /\ notificationinfo' = [notificationinfo EXCEPT ![ctx[t].a] = TRUE]
    /\ Goto(t, "ni_rel")
    /\ UNCHANGED <<targetVars, registered, name, beaninfo, currentId,
                   hostVars, chanVars, typeVars, locks, ctx>>

NotificationinfoRelease(t) ==
    /\ pc[t] = "ni_rel"
    /\ locks' = SyncRelease(LockOf("notificationinfo", ctx[t].a), ctx[t].exc)
    /\ IF ctx[t].inBI
         THEN IF ctx[t].exc = None THEN Goto(t, "bi_store") ELSE Goto(t, "bi_rel")
         ELSE Goto(t, "done")
    /\ UNCHANGED <<targetVars, adapterVars, hostVars, chanVars, typeVars, ctx>>

\* --------------------------------------------- NotificationTrigger.__call__
\* Threads inside an emit that may still draw a sequence number.
Emitting == {u \in Threads : ctx[u].op = "emit" /\ pc[u] # "done"}

\* bean.test(...): the trigger object is looked up on the class.
EmitCall(t, s) ==
    /\ pc[t] = "idle"
    /\ \A a \in Adapters : currentId[a] + Cardinality(Emitting) < MaxId
    /\ Goto(t, "em_check")
    /\ SetCtx(t, [Ctx0 EXCEPT !.op = "emit", !.o = slotObj[s]])
    /\ UNCHANGED <<targetVars, adapterVars, hostVars, chanVars, typeVars, locks>>

\* Mutant: the source is left out of the test.
FullyWiredNoSource(o) == Truthy(chSend[o]) /\ Truthy(chNextId[o])

\* all((self._sendNotification, self._nextId, self._source, ))
FullyWired(o) == Truthy(chSend[o]) /\ Truthy(chNextId[o]) /\ Truthy(chSource[o])

\* if not all(...): return; otherwise self._nextId() is called
EmitCheck(t) ==
    /\ pc[t] = "em_check"
    /\ IF FullyWired(ctx[t].o)
         THEN /\ Goto(t, "id_acq")
              /\ SetCtx(t, [ctx[t] EXCEPT !.a = chNextId[ctx[t].o],
                                          !.base = currentId[chNextId[ctx[t].o]]])
         ELSE /\ Goto(t, "done")
              /\ UNCHANGED ctx
    /\ UNCHANGED <<targetVars, adapterVars, hostVars, chanVars, typeVars, locks>>

\* ---------------------------------------------------- MBeanAdapter._nextId
\* Mutant: the sum is not stored.
IncrementNone(v) == v

\* self._currentId += 1
Increment(v) == v + 1

NextIdAcquire(t) ==
    /\ pc[t] = "id_acq"
    /\ SyncCanAcquire(LockOf("_nextId", ctx[t].a))
    /\ locks' = SyncAcquire(LockOf("_nextId", ctx[t].a), t)
    /\ Goto(t, "id_read")
    /\ UNCHANGED <<targetVars, adapterVars, hostVars, chanVars, typeVars, ctx>>

\* self._currentId += 1 loads the field ...
NextIdRead(t) ==
    /\ pc[t] = "id_read"
    /\ SetCtx(t, [ctx[t] EXCEPT !.tmp = currentId[ctx[t].a]])
    /\ Goto(t, "id_write")
    /\ UNCHANGED <<targetVars, adapterVars, hostVars, chanVars, typeVars, locks>>

\* ... and stores the sum.
NextIdWrite(t) ==
    /\ pc[t] = "id_write"
    /\ currentId' = [currentId EXCEPT ![ctx[t].a] = Increment(ctx[t].tmp)]
    /\ Goto(t, "id_ret")
    /\ UNCHANGED <<targetVars, registered, name, beaninfo, notificationinfo,
                   hostVars, chanVars, typeVars, locks, ctx>>

\* return self._currentId
NextIdReturn(t) ==
    /\ pc[t] = "id_ret"
    /\ SetCtx(t, [ctx[t] EXCEPT !.seq = currentId[ctx[t].a]])
    /\ allocated' = [allocated EXCEPT ![ctx[t].a] = Append(@, currentId[ctx[t].a])]
    /\ Goto(t, "id_rel")
    /\ UNCHANGED <<targetVars, adapterVars, registry, delivered, failed, reflected, chanVars, typeVars, locks>>

NextIdRelease(t) ==
    /\ pc[t] = "id_rel"
    /\ locks' = SyncRelease(LockOf("_nextId", ctx[t].a), ctx[t].exc)
    /\ Goto(t, "em_send")
    /\ UNCHANGED <<targetVars, adapterVars, hostVars, chanVars, typeVars, ctx>>

\* Mutant: sendNotification swallows the notification.
DeliverDrop(q, n) == q

\* NotificationBroadcasterSupport.sendNotification(self, notification)
Deliver(q, n) == Append(q, n)

\* self._sendNotification(notification): MBeanAdapter.sendNotification hands
\* the notification to NotificationBroadcasterSupport.
EmitSend(t) ==
    /\ pc[t] = "em_send"
    /\ LET b == chSend[ctx[t].o]
       IN delivered' = [delivered EXCEPT ![b] = Deliver(@, ctx[t].seq)]
    /\ Goto(t, "done")
    /\ UNCHANGED <<targetVars, adapterVars, registry, allocated, failed, reflected, chanVars, typeVars,
                   locks, ctx>>

\* ------------------------------------------------------------------ logged
\* Mutant: the wrapper raises a new exception of the same class.
LoggedRaiseCopy(e) ==
    IF e = NoErr THEN e ELSE [e EXCEPT !.by = "logged"]

\* except: ...; raise  -- re-raises the exception being handled.
LoggedRaise(e) == e

\* return fun(*args_, **kwargs)
LoggedReturn(v) == v

\* logging.exception('Error executing %s', fun.__name__)
LoggedLog(log, fn, e) == IF e = NoErr THEN log ELSE Append(log, <<"logged", fn>>)

\* What the caller of a wrapped function fn receives from its body.
Logged(c, fn) ==
    [c EXCEPT !.err = LoggedRaise(c.bexc),
              !.res = IF c.bexc = NoErr THEN LoggedReturn(c.bret) ELSE Absent,
              !.log = LoggedLog(c.log, fn, c.bexc)]

\* The body raises e / returns v.
Raise(c, e) == [c EXCEPT !.bexc = e, !.bret = Absent]
Ret(c, v) == [c EXCEPT !.bexc = NoErr, !.bret = v]
Log(c, who, msg) == [c EXCEPT !.log = Append(c.log, <<who, msg>>)]

\* ------------------------------------------------------ the target object
nonTargetVars == <<adapterVars, hostVars, chanVars, typeVars, locks>>

\* The target has a member called n.
HasName(n) == n \in Properties \cup Methods \/ bean[n] # Absent

\* Evaluating the member can raise (a getter that raises).
GetterRaises(n) == IF n = "broken" THEN BOOLEAN ELSE {FALSE}

\* getattr(self._bean, n) when nothing is raised.
GetAttrValue(n) ==
    CASE n = "broken" -> <<"str", "x">>
      [] n \in Properties -> bean[FieldOfProperty(n)]
      [] n \in Methods -> <<"method", n>>
      [] OTHER -> bean[n]

\* hasattr(self._bean, n): getattr, with every exception read as False.
HasAttr(n, r) == HasName(n) /\ ~r

\* DEFAULT_PROPERTY_TYPE unless the class attribute is a TypedProperty.
AttrType(n) ==
    CASE n = "intValue" -> "Integer"
      [] n = "boolValue" -> "Boolean"
      [] OTHER -> "String"

\* ------------------------------------------------ MBeanAdapter.getAttribute
GetAttributeCall(t, a, n) ==
    /\ pc[t] = "idle"
    /\ Goto(t, "ga_has")
    /\ SetCtx(t, [Ctx0 EXCEPT !.op = "getAttribute", !.a = a, !.nm = n,
                              !.bean0 = bean])
    /\ UNCHANGED <<targetVars, nonTargetVars>>

\* if not hasattr(self._bean, name): raise AttributeNotFoundException
GetAttributeHas(t) ==
    /\ pc[t] = "ga_has"
    /\ \E r \in GetterRaises(ctx[t].nm) :
         IF HasAttr(ctx[t].nm, r)
           THEN /\ Goto(t, "ga_type")
                /\ UNCHANGED ctx
           ELSE /\ Goto(t, "ga_ret")
                /\ SetCtx(t, Raise(Log(ctx[t], "getAttribute", "Attribute not found"),
                                   Exc("AttributeNotFoundException", "adapter")))
    /\ UNCHANGED <<targetVars, nonTargetVars>>

\* type_ = self.DEFAULT_PROPERTY_TYPE, or property_.type
GetAttributeType(t) ==
    /\ pc[t] = "ga_type"
    /\ Goto(t, "ga_read")
    /\ SetCtx(t, [ctx[t] EXCEPT !.type = AttrType(ctx[t].nm)])
    /\ UNCHANGED <<targetVars, nonTargetVars>>

\* value = getattr(self._bean, name)
GetAttributeRead(t) ==
    /\ pc[t] = "ga_read"
    /\ \E r \in GetterRaises(ctx[t].nm) :
         IF r
           THEN /\ Goto(t, "ga_ret")
                /\ SetCtx(t, Raise(ctx[t], Exc("ValueError", "target")))
           ELSE /\ Goto(t, "ga_coerce")
                /\ SetCtx(t, [ctx[t] EXCEPT !.raw = GetAttrValue(ctx[t].nm)])
    /\ UNCHANGED <<targetVars, nonTargetVars>>

\* return type_(value)
GetAttributeCoerce(t) ==
    /\ pc[t] = "ga_coerce"
    /\ Goto(t, "ga_ret")
    /\ LET c == Coerce(ctx[t].type, ctx[t].raw)
       IN SetCtx(t, IF c = Absent
                      THEN Raise(ctx[t], CoerceError(ctx[t].type, ctx[t].raw))
                      ELSE Ret(ctx[t], c))
    /\ UNCHANGED <<targetVars, nonTargetVars>>

\* @logged; the caller is the host or getAttributes.
GetAttributeReturn(t) ==
    /\ pc[t] = "ga_ret"
    /\ Goto(t, IF ctx[t].inBatch THEN "gas_got" ELSE "done")
    /\ SetCtx(t, Logged(ctx[t], "getAttribute"))
    /\ UNCHANGED <<targetVars, nonTargetVars>>

\* ----------------------------------------------- MBeanAdapter.getAttributes
\* The locals of a nested call, cleared for the next one.
ClearInner(c) ==
    [c EXCEPT !.bexc = NoErr, !.bret = Absent, !.err = NoErr, !.res = Absent,
              !.raw = Absent, !.type = None]

GetAttributesCall(t, a, names) ==
    /\ pc[t] = "idle"
    /\ Goto(t, "gas_loop")
    /\ SetCtx(t, [Ctx0 EXCEPT !.op = "getAttributes", !.a = a,
                              !.names = names, !.i = 1, !.bean0 = bean])
    /\ UNCHANGED <<targetVars, nonTargetVars>>

\* for name in names: value = self.getAttribute(name)
GetAttributesLoop(t) ==
    /\ pc[t] = "gas_loop"
    /\ IF ctx[t].i > Len(ctx[t].names)
         THEN /\ Goto(t, "gas_ret")
              /\ SetCtx(t, Ret([ctx[t] EXCEPT !.inBatch = FALSE],
                               <<"AttributeList", "out">>))
         ELSE /\ Goto(t, "ga_has")
              /\ SetCtx(t, [ctx[t] EXCEPT !.nm = ctx[t].names[ctx[t].i],
                                          !.inBatch = TRUE])
    /\ UNCHANGED <<targetVars, nonTargetVars>>

\* except AttributeNotFoundException: pass
Discarded(e) == e.kind = "AttributeNotFoundException"

\* except ...: pass / else: attributes.add(Attribute(name, value))
GetAttributesGot(t) ==
    /\ pc[t] = "gas_got"
    /\ LET c == ctx[t]
       IN IF c.err = NoErr
            THEN /\ Goto(t, "gas_loop")
                 /\ SetCtx(t, ClearInner([c EXCEPT !.i = c.i + 1,
                                   !.out = Append(c.out, <<c.nm, c.res>>)]))
            ELSE IF Discarded(c.err)
            THEN /\ Goto(t, "gas_loop")
                 /\ SetCtx(t, ClearInner([c EXCEPT !.i = c.i + 1]))
            ELSE /\ Goto(t, "gas_ret")
                 /\ SetCtx(t, Raise([c EXCEPT !.inBatch = FALSE], c.err))
    /\ UNCHANGED <<targetVars, nonTargetVars>>

\* @logged
GetAttributesReturn(t) ==
    /\ pc[t] = "gas_ret"
    /\ Goto(t, "done")
    /\ SetCtx(t, Logged(ctx[t], "getAttributes"))
    /\ UNCHANGED <<targetVars, nonTargetVars>>

\* ------------------------------------------------ MBeanAdapter.setAttribute
\* Mutant: the value is coerced to the default type before it is written.
PassedToSetterCoerced(v) ==
    IF Coerce("String", v) = Absent THEN <<"java.lang.String", "">>
    ELSE Coerce("String", v)

\* setattr(self._bean, attribute.name, attribute.value): the value as given.
PassedToSetter(v) == v

\* setattr on a name the class does not define adds an instance attribute.
SetAttrCreates(n) == n \notin Properties

SetAttributeCall(t, a, n, v) ==
    /\ pc[t] = "idle"
    /\ Goto(t, "sa_set")
    /\ SetCtx(t, [Ctx0 EXCEPT !.op = "setAttribute", !.a = a, !.nm = n,
                              !.arg = v, !.bean0 = bean])
    /\ UNCHANGED <<targetVars, nonTargetVars>>

\* setattr(self._bean, attribute.name, attribute.value)
SetAttributeSet(t) ==
    /\ pc[t] = "sa_set"
    /\ Goto(t, "sa_ret")
    /\ LET c == ctx[t]
           n == c.nm
           v == PassedToSetter(c.arg)
       IN IF n = "broken"
            THEN /\ SetCtx(t, Raise(c, Exc("ValueError", "target")))
                 /\ UNCHANGED targetVars
          ELSE IF n \in Properties /\ ~Writable(n)
            THEN /\ SetCtx(t, Raise(c, Exc("AttributeError", "target")))
                 /\ UNCHANGED targetVars
          ELSE IF n \in Properties \/ SetAttrCreates(n)
            THEN /\ bean' = [bean EXCEPT ![FieldOfProperty(n)] = v]
                 /\ written' = [written EXCEPT ![n] = c.arg]
                 /\ SetCtx(t, Ret(c, PyNone))
            ELSE /\ SetCtx(t, Raise(c, Exc("AttributeError", "target")))
                 /\ UNCHANGED targetVars
    /\ UNCHANGED nonTargetVars

\* @logged; the caller is the host or setAttributes.
SetAttributeReturn(t) ==
    /\ pc[t] = "sa_ret"
    /\ Goto(t, IF ctx[t].inBatch THEN "sas_got" ELSE "done")
    /\ SetCtx(t, Logged(ctx[t], "setAttribute"))
    /\ UNCHANGED <<targetVars, nonTargetVars>>

\* ----------------------------------------------- MBeanAdapter.setAttributes
SetAttributesCall(t, a, items) ==
    /\ pc[t] = "idle"
    /\ Goto(t, "sas_loop")
    /\ SetCtx(t, [Ctx0 EXCEPT !.op = "setAttributes", !.a = a,
                              !.items = items, !.i = 1, !.bean0 = bean])
    /\ UNCHANGED <<targetVars, nonTargetVars>>

\* map(self.setAttribute, attributes): the next element, or the end.
SetAttributesLoop(t) ==
    /\ pc[t] = "sas_loop"
    /\ IF ctx[t].i > Len(ctx[t].items)
         THEN /\ Goto(t, "sas_ret")
              /\ SetCtx(t, Ret([ctx[t] EXCEPT !.inBatch = FALSE], PyNone))
         ELSE /\ Goto(t, "sa_set")
              /\ SetCtx(t, [ctx[t] EXCEPT !.nm = ctx[t].items[ctx[t].i][1],
                                          !.arg = ctx[t].items[ctx[t].i][2],
                                          !.inBatch = TRUE])
    /\ UNCHANGED <<targetVars, nonTargetVars>>

\* Mutant: map goes on after an element raised.
MapStopsNever(e) == FALSE

\* An exception of self.setAttribute leaves map and setAttributes.
MapStops(e) == e # NoErr

SetAttributesGot(t) ==
    /\ pc[t] = "sas_got"
    /\ LET c == ctx[t]
       IN IF MapStops(c.err)
            THEN /\ Goto(t, "sas_ret")
                 /\ SetCtx(t, Raise([c EXCEPT !.inBatch = FALSE], c.err))
            ELSE /\ Goto(t, "sas_loop")
                 /\ SetCtx(t, ClearInner([c EXCEPT !.i = c.i + 1]))
    /\ UNCHANGED <<targetVars, nonTargetVars>>

\* @logged
SetAttributesReturn(t) ==
    /\ pc[t] = "sas_ret"
    /\ Goto(t, "done")
    /\ SetCtx(t, Logged(ctx[t], "setAttributes"))
    /\ UNCHANGED <<targetVars, nonTargetVars>>

\* ------------------------------------------------------ MBeanAdapter.invoke
\* Number of parameters of a method, self excluded.
Arity(n) == IF n \in {"hello", "parse"} THEN 1 ELSE 0

\* What the method returns when called with args.
MethodResult(n, args) ==
    CASE n = "demo" -> PyNone
      [] n = "size" -> <<"int", "1">>
      [] n = "hello" -> <<"str", "hello">>
      [] OTHER -> args[1]

\* Mutant: every member counts as callable.
IsCallableAlways(v) == TRUE

\* callable(fun)
IsCallable(v) == v[1] = "method"

\* Mutant: the declared return type is ignored.
ReturnTypeVoid(n) == "Void"

\* getattr(fun, '__returns__', self.DEFAULT_FUNCTION_RETURN_TYPE)
ReturnType(n) ==
    CASE n = "hello" -> "String"
      [] n = "parse" -> "Integer"
      [] OTHER -> "Void"

NoSuchMethod == Wrap("ReflectionException", Exc("NoSuchMethodException", "adapter"))

InvokeCall(t, a, n, args) ==
    /\ pc[t] = "idle"
    /\ Goto(t, "iv_has")
    /\ SetCtx(t, [Ctx0 EXCEPT !.op = "invoke", !.a = a, !.nm = n,
                              !.args = args, !.bean0 = bean])
    /\ UNCHANGED <<targetVars, nonTargetVars>>

\* if not hasattr(self._bean, name): raise ReflectionException(...)
InvokeHas(t) ==
    /\ pc[t] = "iv_has"
    /\ \E r \in GetterRaises(ctx[t].nm) :
         IF HasAttr(ctx[t].nm, r)
           THEN /\ Goto(t, "iv_get")
                /\ UNCHANGED ctx
           ELSE /\ Goto(t, "iv_ret")
                /\ SetCtx(t, Raise(ctx[t], NoSuchMethod))
    /\ UNCHANGED <<targetVars, nonTargetVars>>

\* fun = getattr(self._bean, name, None); except Exception: MBeanException
InvokeGet(t) ==
    /\ pc[t] = "iv_get"
    /\ \E r \in GetterRaises(ctx[t].nm) :
         IF r
           THEN /\ Goto(t, "iv_ret")
                /\ SetCtx(t, Raise(Log(ctx[t], "invoke",
                                       "Error retrieving method on bean"),
                                   Wrap("MBeanException",
                                        Exc("ValueError", "target"))))
           ELSE /\ Goto(t, "iv_callable")
                /\ SetCtx(t, [ctx[t] EXCEPT !.raw = GetAttrValue(ctx[t].nm)])
    /\ UNCHANGED <<targetVars, nonTargetVars>>

\* if not callable(fun): raise ReflectionException(...); return_type = ...
InvokeCallable(t) ==
    /\ pc[t] = "iv_callable"
    /\ IF IsCallable(ctx[t].raw)
         THEN /\ Goto(t, "iv_call")
              /\ SetCtx(t, [ctx[t] EXCEPT !.type = ReturnType(ctx[t].nm)])
         ELSE /\ Goto(t, "iv_ret")
              /\ SetCtx(t, Raise(ctx[t], NoSuchMethod))
    /\ UNCHANGED <<targetVars, nonTargetVars>>

\* value = fun(*args_)
InvokeApply(t) ==
    /\ pc[t] = "iv_call"
    /\ LET c == [ctx[t] EXCEPT !.called = Append(@, <<ctx[t].nm, ctx[t].args>>)]
       IN IF ctx[t].raw[1] = "method" /\ Len(c.args) = Arity(c.nm)
            THEN /\ Goto(t, "iv_coerce")
                 /\ SetCtx(t, [c EXCEPT !.raw = MethodResult(c.nm, c.args)])
            ELSE /\ Goto(t, "iv_ret")
                 /\ SetCtx(t, Raise(Log(c, "invoke",
                                  "Error executing or coercing return value"),
                                    Wrap("MBeanException",
                                         Exc("TypeError", "target"))))
    /\ UNCHANGED <<targetVars, nonTargetVars>>

\* if return_type is java.lang.Void: return; else: return return_type(value)
InvokeCoerce(t) ==
    /\ pc[t] = "iv_coerce"
    /\ Goto(t, "iv_ret")
    /\ LET c == ctx[t]
           v == Coerce(c.type, c.raw)
       IN SetCtx(t, IF c.type = "Void" THEN Ret(c, PyNone)
                    ELSE IF v = Absent
                      THEN Raise(Log(c, "invoke",
                                  "Error executing or coercing return value"),
                                 Wrap("MBeanException", CoerceError(c.type, c.raw)))
                    ELSE Ret(c, v))
    /\ UNCHANGED <<targetVars, nonTargetVars>>

\* @logged
InvokeReturn(t) ==
    /\ pc[t] = "iv_ret"
    /\ Goto(t, "done")
    /\ SetCtx(t, Logged(ctx[t], "invoke"))
    /\ UNCHANGED <<targetVars, nonTargetVars>>

\* ------------------------------------------------------------ tag_decorator
\* returns = tag_decorator('__returns__', lambda *a: a[0])
ReturnsModifier(a) == a[1]

\* Mutant: args keeps the first declaration only.
ArgsModifierFirst(a) == IF a = <<>> THEN a ELSE <<a[1]>>

\* args = tag_decorator('__args__', lambda *a: tuple(a))
ArgsModifier(a) == a

\* @returns(*a) def f: modified_args = modifier(*args_);
\* setattr(fun, '__returns__', modified_args); return fun.
\* a[0] of an empty argument tuple raises IndexError.
TagReturns(t, f, a) ==
    /\ pc[t] = "idle"
    /\ Goto(t, "done")
    /\ IF a = <<>>
         THEN /\ SetCtx(t, [Ctx0 EXCEPT !.op = "returns", !.fun = f, !.given = a,
                                        !.exc = "IndexError", !.tags0 = tags])
              /\ UNCHANGED tags
         ELSE /\ SetCtx(t, [Ctx0 EXCEPT !.op = "returns", !.fun = f, !.given = a,
                                        !.gave = f, !.tags0 = tags])
              /\ tags' = [tags EXCEPT ![f].returns = ReturnsModifier(a)]
    /\ UNCHANGED <<targetVars, adapterVars, hostVars, chanVars, slotObj, shape, locks>>

\* @args(*a) def f: setattr(fun, '__args__', tuple(a)); return fun.
TagArgs(t, f, a) ==
    /\ pc[t] = "idle"
    /\ Goto(t, "done")
    /\ SetCtx(t, [Ctx0 EXCEPT !.op = "args", !.fun = f, !.given = a,
                              !.gave = f, !.tags0 = tags])
    /\ tags' = [tags EXCEPT ![f].hasArgs = TRUE, ![f].args = ArgsModifier(a)]
    /\ UNCHANGED <<targetVars, adapterVars, hostVars, chanVars, slotObj, shape, locks>>

\* ------------------------------------------------ the target type changes
\* Trigger objects some class attribute or some running call refers to.
Referenced ==
    {slotObj[s] : s \in 1..Len(Slots)}
      \cup {ctx[t].o : t \in Threads}
      \cup UNION {{ctx[t].objs[i] : i \in 1..Len(ctx[t].objs)} : t \in Threads}

\* cls.test = signal('test'): a class attribute is rebound to a new,
\* unwired trigger object.
\* The object that was bound before is forgotten once nothing refers to it.
ReplaceChannel(s) ==
    /\ \E o \in Objs :
         /\ o \notin Referenced
         /\ \A p \in Objs : p \notin Referenced => o <= p
         /\ slotObj' = [slotObj EXCEPT ![s] = o]
         /\ LET old == slotObj[s]
                kept == {slotObj[r] : r \in (1..Len(Slots)) \ {s}}
                          \cup (Referenced \ {slotObj[r] : r \in 1..Len(Slots)})
                Fresh(f) == [p \in Objs |->
                               IF p = o \/ (p = old /\ old \notin kept)
                                 THEN None ELSE f[p]]
            IN /\ chSend' = Fresh(chSend)
               /\ chNextId' = Fresh(chNextId)
               /\ chSource' = Fresh(chSource)
    /\ UNCHANGED <<targetVars, adapterVars, hostVars, shape, tags, locks, pc, ctx>>

\* The properties or the method of the target type are redefined.
ChangeShape(kind) ==
    /\ kind # shape
    /\ shape' = kind
    /\ UNCHANGED <<targetVars, adapterVars, hostVars, chanVars, slotObj, tags, locks, pc, ctx>>

\* ----------------------------------------------------------- specification
\* register and unregister of the adapters A under the names N.
LifeStep(t, A, N) ==
    \/ \E a \in A, nm \in N : RegisterCall(t, a, nm)
    \/ RegisterAcquire(t)
    \/ RegisterCheck(t)
    \/ RegisterName(t)
    \/ RegisterHost(t)
    \/ RegisterBind(t)
    \/ RegisterFlag(t)
    \/ RegisterRelease(t)
    \/ \E a \in A : UnregisterCall(t, a)
    \/ UnregisterAcquire(t)
    \/ UnregisterCheck(t)
    \/ UnregisterHost(t)
    \/ UnregisterName(t)
    \/ UnregisterFlag(t)
    \/ UnregisterRelease(t)

\* getMBeanInfo and getNotificationInfo of the adapters A.
DescribeStep(t, A) ==
    \/ \E a \in A : BeaninfoCall(t, a)
    \/ BeaninfoAcquire(t)
    \/ BeaninfoCheck(t)
    \/ BeaninfoAttributes(t)
    \/ BeaninfoOperations(t)
    \/ BeaninfoNotifications(t)
    \/ BeaninfoStore(t)
    \/ BeaninfoRelease(t)
    \/ \E a \in A : NotificationinfoCall(t, a)
    \/ NotificationinfoAcquire(t)
    \/ NotificationinfoCheck(t)
    \/ NotificationinfoWire(t)
    \/ NotificationinfoStore(t)
    \/ NotificationinfoRelease(t)

\* The target fires one of its triggers.
EmitStep(t) ==
    \/ \E s \in 1..Len(Slots) : EmitCall(t, s)
    \/ EmitCheck(t)
    \/ NextIdAcquire(t)
    \/ NextIdRead(t)
    \/ NextIdWrite(t)
    \/ NextIdReturn(t)
    \/ NextIdRelease(t)
    \/ EmitSend(t)

\* User code wires a trigger of the type by hand.
WireStep(t) ==
    \/ \E s \in 1..Len(Slots), v \in Adapters : SetSendNotification(t, s, v)
    \/ \E s \in 1..Len(Slots), v \in Adapters : SetNextId(t, s, v)
    \/ \E s \in 1..Len(Slots), v \in SourceValues : SetSource(t, s, v)

\* The type is changed while no call is running.
TypeStep ==
    /\ \A t \in Threads : pc[t] = "idle"
    /\ \/ \E s \in 1..Len(Slots) : ReplaceChannel(s)
       \/ \E kind \in Shapes : ChangeShape(kind)

\* Spec: two threads call one adapter concurrently.
Next ==
    \E t \in Threads :
        \/ LifeStep(t, {"a1"}, RegNames)
        \/ DescribeStep(t, {"a1"})
        \/ EmitStep(t)
        \/ Return(t)

Spec == Init /\ [][Next]_vars

\* SpecType: one thread calls the adapter and the triggers, one call after
\* the other, while the target type is being changed between the calls.
NextType ==
    \/ LifeStep("t1", {"a1"}, RegNames)
    \/ DescribeStep("t1", {"a1"})
    \/ EmitStep("t1")
    \/ Return("t1")
    \/ TypeStep

SpecType == Init /\ [][NextType]_vars

\* SpecHeal: one thread asks two adapters of the same target type for their
\* descriptions while the type is being changed between the calls.
NextHeal ==
    \/ DescribeStep("t1", Adapters)
    \/ Return("t1")
    \/ TypeStep

SpecHeal == Init /\ [][NextHeal]_vars

\* SpecWire: one thread wires and fires the triggers by hand.
InitWire == Init /\ shape = "void0"

NextWire ==
    \/ WireStep("t1")
    \/ EmitStep("t1")
    \/ Return("t1")

SpecWire == InitWire /\ [][NextWire]_vars

\* The host reads, writes and invokes members of the target through adapter a:
\* getAttribute, setAttribute and invoke.
ScalarStep(t, a) ==
    \/ \E n \in AttrNames : GetAttributeCall(t, a, n)
    \/ GetAttributeHas(t)
    \/ GetAttributeType(t)
    \/ GetAttributeRead(t)
    \/ GetAttributeCoerce(t)
    \/ GetAttributeReturn(t)
    \/ \E n \in AttrNames, v \in Values : SetAttributeCall(t, a, n, v)
    \/ SetAttributeSet(t)
    \/ SetAttributeReturn(t)
    \/ \E n \in InvokeNames, args \in ArgLists : InvokeCall(t, a, n, args)
    \/ InvokeHas(t)
    \/ InvokeGet(t)
    \/ InvokeCallable(t)
    \/ InvokeApply(t)
    \/ InvokeCoerce(t)
    \/ InvokeReturn(t)

\* getAttributes and setAttributes, which call getAttribute and setAttribute.
BatchStep(t, a) ==
    \/ \E names \in NameLists : GetAttributesCall(t, a, names)
    \/ GetAttributesLoop(t)
    \/ GetAttributesGot(t)
    \/ GetAttributesReturn(t)
    \/ \E items \in ItemLists : SetAttributesCall(t, a, items)
    \/ SetAttributesLoop(t)
    \/ SetAttributesGot(t)
    \/ SetAttributesReturn(t)

DispatchStep(t, a) == ScalarStep(t, a) \/ BatchStep(t, a)

\* SpecDispatch: the host calls the dispatch operations of one adapter, one
\* call after the other.
InitDispatch == Init /\ shape = "void0"

NextDispatch ==
    \/ DispatchStep("t1", "a1")
    \/ Return("t1")

SpecDispatch == InitDispatch /\ [][NextDispatch]_vars

\* SpecShared: one thread asks two adapters of one target type for their
\* descriptions and fires the triggers of the type, one call after the other.
NextShared ==
    \/ DescribeStep("t1", Adapters)
    \/ EmitStep("t1")
    \/ Return("t1")

SpecShared == InitWire /\ [][NextShared]_vars

\* SpecLazy: the host registers, describes, reads, writes and invokes on one
\* fresh adapter, one call after the other.
NextLazy ==
    \/ LifeStep("t1", {"a1"}, {"n1"})
    \/ DescribeStep("t1", {"a1"})
    \/ ScalarStep("t1", "a1")
    \/ Return("t1")

SpecLazy == InitWire /\ [][NextLazy]_vars

\* SpecTag: functions are tagged with returns and args, again and again.
NextTag ==
    \/ \E f \in Funs, a \in ReturnsCalls : TagReturns("t1", f, a)
    \/ \E f \in Funs, a \in ArgsCalls : TagArgs("t1", f, a)
    \/ Return("t1")

SpecTag == InitWire /\ [][NextTag]_vars

\* SpecLive: two threads call register and unregister on one adapter; the
\* first also calls describe and notification-info on either adapter of the
\* type, the second also emits from the triggers. The steps of describe that
\* follow its call belong to both threads, since register runs them. Every
\* thread that can take a step infinitely often takes one.
LiveStep(t) ==
    \/ LifeStep(t, {"a1"}, {"n1"})
    \/ DescribeStep(t, IF t = "t1" THEN Adapters ELSE {})
    \/ (t = "t2" /\ EmitStep(t))
    \/ Return(t)

NextLive == \E t \in Threads : LiveStep(t)

SpecLive ==
    /\ InitWire
    /\ [][NextLive]_vars
    /\ \A t \in Threads : SF_vars(LiveStep(t))

\* ------------------------------------------------------------------ claims
Finished(t, op) == pc[t] = "done" /\ ctx[t].op = op

\* C1: sequentially, register on a registered adapter and unregister on an
\* unregistered adapter raise RuntimeError and leave the registered flag, the
\* registration name and the registry binding as the call found them; a
\* register that returns has set the flag, an unregister that returns has
\* cleared the flag and the name.
C1_RegisterUnregisterContract ==
    \A t \in Threads :
      LET a == ctx[t].a
          same == /\ registered[a] = ctx[t].pre.reg
                  /\ name[a] = ctx[t].pre.nm
                  /\ registry = ctx[t].pre.bound
      IN /\ Finished(t, "register") =>
              IF ctx[t].pre.reg
                THEN ctx[t].exc = "RuntimeError" /\ same
                ELSE ctx[t].exc = None => registered[a]
         /\ Finished(t, "unregister") =>
              IF ~ctx[t].pre.reg
                THEN ctx[t].exc = "RuntimeError" /\ same
                ELSE ctx[t].exc = None => ~registered[a] /\ name[a] = None

\* A second register on an adapter registered under another name has failed.
C1_Witness ==
    /\ Finished("t1", "register")
    /\ ctx["t1"].pre.reg
    /\ ctx["t1"].pre.nm # ctx["t1"].nm
    /\ ctx["t1"].exc = "RuntimeError"

\* Threads whose register or unregister call on adapter a has passed the
\* state check and has not yet written the registered flag.
Registering(a) ==
    {t \in Threads : /\ ctx[t].op = "register" /\ ctx[t].a = a
                     /\ pc[t] \notin {"reg_acq", "reg_check", "reg_rel", "done"}}
Unregistering(a) ==
    {t \in Threads : /\ ctx[t].op = "unregister" /\ ctx[t].a = a
                     /\ pc[t] \in {"unreg_host", "unreg_name", "unreg_flag"}}
BoundNames(a) == {n \in RegNames : registry[n] = a}

\* C2: under any interleaving of register and unregister calls by several
\* threads at most one call is past the state check at a time, a register is
\* past it only while the flag is false and an unregister only while it is
\* true (so two registers, or two unregisters, never succeed from one state),
\* the adapter is bound under at most one name, and when no call is running
\* the flag is true exactly when the adapter is bound.
C2_TransitionNotRaced ==
    \A a \in Adapters :
      /\ Cardinality(Registering(a) \cup Unregistering(a)) <= 1
      /\ Registering(a) # {} => ~registered[a]
      /\ Unregistering(a) # {} => registered[a]
      /\ Cardinality(BoundNames(a)) <= 1
      /\ (\A t \in Threads : pc[t] \in {"idle", "done"}) =>
            (registered[a] <=> BoundNames(a) # {})

\* One thread is binding the adapter while the other waits for the lock of
\* register with another name.
C2_Witness ==
    /\ pc["t1"] = "reg_flag"
    /\ pc["t2"] = "reg_acq"
    /\ ctx["t1"].a = ctx["t2"].a
    /\ ctx["t1"].nm # ctx["t2"].nm

StrictlyIncreasing(q) == \A i, j \in 1..Len(q) : i < j => q[i] < q[j]
Distinct(q) == \A i, j \in 1..Len(q) : i # j => q[i] # q[j]
Elements(q) == {q[i] : i \in 1..Len(q)}

\* C3: under any interleaving of emits with register, unregister and
\* describe calls, every number _nextId returns is greater than all numbers
\* it returned before on that adapter, and the counter is never below a
\* number it has handed out.
C3_SequenceNumbersIncrease ==
    \A a \in Adapters :
      /\ StrictlyIncreasing(allocated[a])
      /\ \A i \in 1..Len(allocated[a]) : allocated[a][i] <= currentId[a]

\* Two numbers were drawn, the second after the adapter was registered and
\* unregistered again.
C3_Witness ==
    /\ Len(allocated["a1"]) = 2
    /\ Finished("t1", "unregister") /\ ctx["t1"].exc = None
    /\ pc["t2"] = "id_rel"

\* Threads that drew a number through adapter a and have not sent yet.
Sending(a) ==
    {t \in Threads : pc[t] \in {"id_rel", "em_send"} /\ chSend[ctx[t].o] = a}

\* C4 as stated: the notifications of an adapter are delivered in increasing
\* order of sequence number, also under concurrent emits.
C4_DeliveredInSequenceOrder ==
    \A a \in Adapters : StrictlyIncreasing(delivered[a])

\* C4 as amended: every emit on a fully wired channel delivers exactly one
\* notification (each number drawn is delivered once or is about to be), no
\* two delivered notifications of an adapter carry the same number, and the
\* number of an emit is greater than every number the adapter had allocated
\* when the emit began.
C4_EmitDeliversOnce ==
    \A a \in Adapters :
      /\ Distinct(delivered[a])
      /\ Len(delivered[a]) + Cardinality(Sending(a)) = Len(allocated[a])
      /\ Elements(allocated[a]) =
            Elements(delivered[a]) \cup {ctx[t].seq : t \in Sending(a)}
      /\ \A t \in Sending(a) : ctx[t].seq > ctx[t].base

\* Two concurrent emits have delivered their notifications out of order.
C4_Witness == delivered["a1"] = <<2, 1>>

\* Threads inside the body of a synchronised function (between acquire and
\* release of its lock), calls nested in the body included.
InBody(fun) ==
    CASE fun = "register" ->
           {t \in Threads : ctx[t].op = "register" /\ pc[t] \notin {"reg_acq", "done"}}
      [] fun = "unregister" ->
           {t \in Threads : ctx[t].op = "unregister" /\ pc[t] \notin {"unreg_acq", "done"}}
      [] fun = "beaninfo" ->
           {t \in Threads :
              \/ pc[t] \in {"bi_check", "bi_attrs", "bi_ops", "bi_ninfo", "bi_store", "bi_rel"}
              \/ ctx[t].inBI /\ pc[t] \in {"ni_acq", "ni_check", "ni_wire", "ni_store", "ni_rel"}}
      [] fun = "notificationinfo" ->
           {t \in Threads : pc[t] \in {"ni_check", "ni_wire", "ni_store", "ni_rel"}}
      [] OTHER ->
           {t \in Threads : pc[t] \in {"id_read", "id_write", "id_ret", "id_rel"}}

\* C5 as stated: register, unregister, description compilation and
\* sequence-number allocation exclude each other on one adapter, so at most
\* one thread is inside any of them at a time.
C5_OneAdapterWideLock ==
    \A a \in Adapters :
      Cardinality({t \in Threads :
                     /\ ctx[t].a = a
                     /\ \E fun \in SyncFuns \ {"notificationinfo"} : t \in InBody(fun)}) <= 1

\* C6: at most one thread is inside the body of a synchronised function, the
\* lock is held exactly while a thread is inside, and so it is free again
\* after a call that returned and after a call that raised.
C6_SynchronisedExcludes ==
    \A fun \in SyncFuns :
      /\ Cardinality(InBody(fun)) <= 1
      /\ locks[fun] = NoThread <=> InBody(fun) = {}
      /\ locks[fun] # NoThread => InBody(fun) = {locks[fun]}

\* A register call has raised and the other thread is inside register.
C6_Witness ==
    /\ Finished("t1", "register")
    /\ ctx["t1"].exc = "RuntimeError"
    /\ pc["t2"] = "reg_check"

\* Positions at which a thread reflects over the type or wires a trigger.
Compiling(a) ==
    {t \in Threads : /\ ctx[t].a = a
                     /\ pc[t] \in {"bi_attrs", "bi_ops", "bi_ninfo", "bi_store",
                                   "ni_wire", "ni_store"}}

\* C7: once a description is memoized it is never replaced, no call reflects
\* over the type or wires a trigger of it again, and every describe that
\* returns hands out the memoized description, whatever register, unregister,
\* emit, notification-info calls and changes of the type happen in between.
C7_DescriptionMemoized ==
    /\ [](\A t \in Threads :
            Finished(t, "describe") /\ ctx[t].exc = None =>
               ctx[t].ret.set /\ ctx[t].ret = beaninfo[ctx[t].a])
    /\ [](\A a \in Adapters : beaninfo[a].set => Compiling(a) = {})
    /\ [][\A a \in Adapters : beaninfo[a].set => beaninfo'[a] = beaninfo[a]]_vars

\* A describe returned the description of a zero-argument method although
\* the method has since lost its declaration, a trigger was replaced and a
\* notification was sent.
C7_Witness ==
    /\ Finished("t1", "describe")
    /\ ctx["t1"].exc = None
    /\ ctx["t1"].ret.ops = "void0"
    /\ shape = "untagged1"
    /\ slotObj[1] # 1
    /\ delivered["a1"] # <<>>

\* C8 as stated: a describe on an adapter on which an earlier describe
\* failed, called when the type is in order again, succeeds and stores the
\* description.
C8_FixedTargetSelfHeals ==
    \A t \in Threads :
      Finished(t, "describe") /\ ctx[t].healed =>
         ctx[t].exc = None /\ beaninfo[ctx[t].a].set

\* The field a setter call is about: 1 emit-function, 2 supplier, 3 source.
FieldOf(op) == CASE op = "setSend" -> 1 [] op = "setNextId" -> 2 [] OTHER -> 3

\* C9 as stated: a setter call on a field that was never set succeeds and
\* stores the value; on a field that was set before it raises RuntimeError
\* and leaves the field at its first value; in both cases the other two
\* fields stay as they were.
C9_WiringFieldsSetOnce ==
    \A t \in Threads :
      pc[t] = "done" /\ ctx[t].op \in {"setSend", "setNextId", "setSource"} =>
        LET f == FieldOf(ctx[t].op)
            now == Wiring(ctx[t].o)
        IN /\ \A g \in (1..3) \ {f} : now[g] = ctx[t].old[g]
           /\ IF ctx[t].old[f] = None
                THEN ctx[t].exc = None /\ now[f] = ctx[t].val
                ELSE ctx[t].exc = "RuntimeError" /\ now[f] = ctx[t].old[f]

\* Some wiring field of the trigger object was never set.
SomeFieldUnset(o) == \E g \in 1..3 : Wiring(o)[g] = None

\* C10: an emit on a trigger with a wiring field that was never set returns
\* at once without an exception and without a sequence number, and neither
\* the call nor the return changes anything but the caller's position.
C10_UnwiredEmitIsNoOp ==
    [][\A t \in Threads :
         /\ pc[t] = "idle" /\ pc'[t] = "em_check" =>
               UNCHANGED <<targetVars, adapterVars, hostVars, chanVars, typeVars, locks>>
         /\ pc[t] = "em_check" /\ pc'[t] # "em_check" /\ SomeFieldUnset(ctx[t].o) =>
               /\ pc'[t] = "done"
               /\ ctx'[t].exc = None
               /\ ctx'[t].seq = 0
               /\ UNCHANGED <<adapterVars, hostVars, chanVars, typeVars, locks>>]_vars

\* An emit returned on a trigger that has two of its three fields set.
C10_Witness ==
    /\ Finished("t1", "emit")
    /\ chSend[ctx["t1"].o] # None
    /\ chNextId[ctx["t1"].o] # None
    /\ chSource[ctx["t1"].o] = None

\* C11: a notification reaches the emit sink of an adapter only while that
\* adapter is registered: never before its first register, never after an
\* unregister.
C11_UnregisteredDeliversNothing ==
    [][\A a \in Adapters :
          delivered'[a] # delivered[a] => registered[a]]_vars

\* The call of t has returned to the host with a value / with an exception.
Returned(t) == ctx[t].err = NoErr
NotFound(t) == ctx[t].err.kind = "AttributeNotFoundException"

\* The type the target declares for attribute n, and the value the target
\* holds for it now.
Declared(n) ==
    IF n = "intValue" THEN "Integer" ELSE IF n = "boolValue" THEN "Boolean"
    ELSE "String"
Current(n) ==
    IF n = "broken" THEN <<"str", "x">>
    ELSE IF n = "strValue" THEN bean["_strValue"]
    ELSE IF n = "intValue" THEN bean["_intValue"]
    ELSE IF n = "boolValue" THEN bean["_boolValue"]
    ELSE bean["bad"]
\* The target has an attribute called n.
Exists(n) == n \in {"strValue", "intValue", "boolValue", "broken"} \/ bean[n] # Absent

\* C12: getAttribute(name) raises the not-found error exactly when the
\* target has no attribute of that name, and then the target is as the call
\* found it; a value it returns is the target's current value of the
\* attribute coerced through the attribute's declared type.
C12_GetAttributeContract ==
    Finished("t1", "getAttribute") =>
      LET n == ctx["t1"].nm
      IN /\ NotFound("t1") <=> ~Exists(n)
         /\ NotFound("t1") => bean = ctx["t1"].bean0
         /\ Returned("t1") => ctx["t1"].res = Coerce(Declared(n), Current(n))

\* The entries getAttributes owes for a list of names: one per name that
\* exists on the target, in request order.
ExpectedEntries(names) ==
    LET ex == SelectSeq(names, Exists)
    IN [k \in 1..Len(ex) |-> <<ex[k], Coerce(Declared(ex[k]), Current(ex[k]))>>]

\* C13: a getAttributes(names) that returns has one (name, value) entry for
\* each requested name that exists on the target, in request order, with the
\* value getAttribute returns for it, and none for the names that do not
\* exist; an error other than not-found ends the batch and reaches the caller.
C13_GetAttributesContract ==
    Finished("t1", "getAttributes") =>
      /\ ~NotFound("t1")
      /\ Returned("t1") => ctx["t1"].out = ExpectedEntries(ctx["t1"].names)

\* C14: on a readable and writable attribute, a getAttribute that follows a
\* setAttribute(name, v) returns v coerced through the declared type (or
\* raises when v cannot be coerced), and a setAttribute that returned has
\* handed v to the setter as it was given.
C14_GetAfterSet ==
    /\ Finished("t1", "getAttribute") =>
         LET n == ctx["t1"].nm
         IN n \in {"strValue", "boolValue"} /\ written[n] # Absent =>
              IF Coerce(Declared(n), written[n]) = Absent
                THEN ~Returned("t1")
                ELSE /\ Returned("t1")
                     /\ ctx["t1"].res = Coerce(Declared(n), written[n])
    /\ Finished("t1", "setAttribute") =>
         LET n == ctx["t1"].nm
         IN n \in {"strValue", "boolValue"} =>
              /\ Returned("t1")
              /\ Current(n) = ctx["t1"].arg
              /\ written[n] = ctx["t1"].arg

\* A Boolean attribute written with a string reads back as Boolean false.
C14_Witness ==
    /\ Finished("t1", "getAttribute")
    /\ ctx["t1"].nm = "boolValue"
    /\ written["boolValue"] = <<"str", "x">>
    /\ ctx["t1"].res = <<"java.lang.Boolean", "false">>

\* The entries of a setAttributes list whose write fails on the target type:
\* the read-only attribute.
WriteFails(item) == item[1] = "intValue"
FailingAt(items) == {k \in 1..Len(items) : WriteFails(items[k])}
FirstFailing(items) ==
    CHOOSE k \in FailingAt(items) : \A j \in FailingAt(items) : k <= j

\* The target after the entries were written in order onto b.
RECURSIVE WrittenInOrder(_, _)
WrittenInOrder(b, items) ==
    IF items = <<>> THEN b
    ELSE WrittenInOrder(
           [b EXCEPT ![IF items[1][1] = "strValue" THEN "_strValue" ELSE "bad"]
                        = items[1][2]],
           Tail(items))

\* C15: setAttributes writes its entries in list order; when the write of an
\* entry fails, the entries before it stay written, that entry and all later
\* ones are not written, and the caller gets the failure.
C15_SetAttributesStopsAtFirstFailure ==
    Finished("t1", "setAttributes") =>
      LET c == ctx["t1"]
      IN IF FailingAt(c.items) = {}
           THEN /\ Returned("t1")
                /\ bean = WrittenInOrder(c.bean0, c.items)
           ELSE /\ c.err.kind = "AttributeError"
                /\ bean = WrittenInOrder(c.bean0,
                              SubSeq(c.items, 1, FirstFailing(c.items) - 1))

\* A list whose first entry is written and whose second entry fails.
C15_Witness ==
    /\ Finished("t1", "setAttributes")
    /\ Len(ctx["t1"].items) = 2
    /\ ctx["t1"].items[1] = <<"strValue", <<"int", "1">>>>
    /\ ctx["t1"].items[2][1] = "intValue"
    /\ ctx["t1"].bean0["_strValue"] # <<"int", "1">>
    /\ bean["_strValue"] = <<"int", "1">>
    /\ ~Returned("t1")

\* C16: setAttributes([(strValue, v), (bad, w)]) on a target without an
\* attribute bad writes strValue, then fails on bad and gives the caller the
\* failure; the target still has no attribute bad.
C16_WriteToMissingNameFails ==
    Finished("t1", "setAttributes") =>
      LET c == ctx["t1"]
      IN /\ Len(c.items) = 2
         /\ c.items[1][1] = "strValue"
         /\ c.items[2][1] = "bad"
         /\ c.bean0["bad"] = Absent
         => /\ ~Returned("t1")
            /\ bean["_strValue"] = c.items[1][2]
            /\ bean["bad"] = Absent

C18_InvokeContract ==
    Finished("t1", "invoke") =>
      LET c == ctx["t1"]
          n == c.nm
          ok == Len(c.args) = (IF n \in {"hello", "parse"} THEN 1 ELSE 0)
      IN n \in {"demo", "size", "hello", "parse"} =>
           /\ c.called = <<<<n, c.args>>>>
           /\ ~ok => /\ c.err.kind = "MBeanException"
                     /\ c.err.cause = <<"TypeError", "target">>
           /\ ok /\ n \in {"demo", "size"} =>
                /\ Returned("t1")
                /\ c.res = PyNone
           /\ ok /\ n = "hello" =>
                /\ Returned("t1")
                /\ c.res = <<"java.lang.String", "hello">>
           /\ ok /\ n = "parse" =>
                IF c.args[1] = <<"str", "x">>
                  THEN /\ c.err.kind = "MBeanException"
                       /\ c.err.cause = <<"NumberFormatException", "coercion">>
                  ELSE /\ Returned("t1")
                       /\ c.res = <<"java.lang.Integer", "1">>

\* A method that declares Integer returned a string that is no number.
C18_Witness ==
    /\ Finished("t1", "invoke")
    /\ ctx["t1"].nm = "parse"
    /\ ctx["t1"].args = <<<<"str", "x">>>>
    /\ ctx["t1"].err.kind = "MBeanException"

\* C19: an exception of a getter, of a setter or of the coercion during
\* getAttribute or setAttribute reaches the caller as an MBeanException with
\* that exception as its cause: never as the exception itself, and an
\* attribute whose getter raises is never reported as not found.
C19_GetSetErrorsWrapped ==
    Finished("t1", "getAttribute") \/ Finished("t1", "setAttribute") =>
      LET c == ctx["t1"]
      IN /\ ~Returned("t1") /\ ~NotFound("t1") =>
              /\ c.err.kind = "MBeanException"
              /\ c.err.cause[2] \in {"target", "coercion"}
         /\ c.nm = "broken" => ~NotFound("t1")

\* The records the wrapper of function fn wrote to the log.
LoggedBy(log, fn) == {k \in 1..Len(log) : log[k] = <<"logged", fn>>}

\* C20: the caller of a function wrapped by logged receives what the
\* function returned, or the very exception object the function raised,
\* after the wrapper logged it once.
C20_LoggedPassesThrough ==
    \A t \in Threads :
      pc[t] = "done" /\ ctx[t].op \in {"getAttribute", "getAttributes",
                           "setAttribute", "setAttributes", "invoke"} =>
        LET c == ctx[t]
        IN /\ c.err = c.bexc
           /\ c.bexc = NoErr => c.res = c.bret /\ c.res # Absent
           /\ Cardinality(LoggedBy(c.log, c.op)) = (IF c.bexc = NoErr THEN 0 ELSE 1)

\* A coercion raised inside getAttribute and the caller has that exception.
C20_Witness ==
    /\ Finished("t1", "getAttribute")
    /\ ctx["t1"].bexc = Exc("TypeError", "coercion")
    /\ ctx["t1"].err = ctx["t1"].bexc
    /\ ctx["t1"].log = <<<<"logged", "getAttribute">>>>

C27_UnregisterAssertionHolds ==
    \A t \in Threads :
      /\ ctx[t].exc # "AssertionError"
      /\ pc[t] = "unreg_check" /\ registered[ctx[t].a] => name[ctx[t].a] # None

\* One thread is past the assertion of unregister while the other thread is
\* inside register on the same adapter.
C27_Witness ==
    /\ pc["t1"] = "unreg_host"
    /\ ctx["t2"].op = "register"
    /\ pc["t2"] = "reg_check"
    /\ ctx["t1"].a = ctx["t2"].a

\* C24: once the channels of a type are wired to one adapter, a description
\* request of another adapter of that type raises the wiring conflict
\* (RuntimeError) and leaves that adapter without description and without
\* notification info; the channels stay wired to the first adapter, and
\* every emit draws its sequence number from the first adapter and is
\* delivered through it.
C24_SecondAdapterConflicts ==
    \A a \in Adapters : notificationinfo[a] =>
      /\ \A s \in 1..Len(Slots) :
            /\ chSend[slotObj[s]] = a
            /\ chNextId[slotObj[s]] = a
      /\ \A b \in Adapters \ {a} :
            /\ beaninfo[b] = NoInfo
            /\ ~notificationinfo[b]
            /\ delivered[b] = <<>>
            /\ allocated[b] = <<>>
            /\ \A t \in Threads :
                 pc[t] = "done" /\ ctx[t].op \in {"describe", "notifinfo"}
                   /\ ctx[t].a = b => ctx[t].exc = "RuntimeError"
      /\ \A t \in Threads :
            Finished(t, "emit") =>
              /\ ctx[t].a = a
              /\ delivered[a] = allocated[a]
              /\ delivered[a][Len(delivered[a])] = ctx[t].seq

\* After the description request of the second adapter failed, an emit was
\* delivered through the first adapter.
C24_Witness ==
    /\ Finished("t1", "emit")
    /\ notificationinfo["a1"]
    /\ failed["a2"]
    /\ delivered["a1"] = <<1>>

\* The field the wiring loop of thread t is about to set.
NextWired(t) ==
    LET o == ctx[t].objs[(ctx[t].wi \div 3) + 1]
        f == ctx[t].wi % 3
    IN IF f = 0 THEN chSend[o] ELSE IF f = 1 THEN chNextId[o] ELSE chSource[o]

\* Concurrent describe and notification-info requests on one adapter wire
\* every channel once, never raise the wiring conflict, and every describe
\* that returns has the one memoized description.
WiredOnceAndMemoized ==
    \A t \in Threads :
      /\ ctx[t].op \in {"describe", "notifinfo", "register"}
            /\ pc[t] = "ni_wire" => NextWired(t) = None
      /\ ctx[t].op \in {"describe", "notifinfo"} => ctx[t].exc # "RuntimeError"
      /\ Finished(t, "describe") /\ ctx[t].exc = None =>
            /\ ctx[t].ret = beaninfo[ctx[t].a]
            /\ beaninfo[ctx[t].a].set
            /\ notificationinfo[ctx[t].a]
            /\ \A s \in 1..Len(Slots) : FullyWired(slotObj[s])

\* C25 as stated: under any interleaving of describe and notification-info
\* requests of several threads on one adapter every channel is wired once,
\* no request raises the wiring conflict, all describes return the memoized
\* description, and the target is reflected at most once.
C25_ReflectedAtMostOnce ==
    /\ WiredOnceAndMemoized
    /\ \A a \in Adapters : reflected[a] <= 1

\* C25 amended: the same, with reflection at most once for a target type
\* whose description can be compiled; for a type that fails validation
\* every describe reflects again and raises.
C25_ReflectedOnceWhenValid ==
    /\ WiredOnceAndMemoized
    /\ \A a \in Adapters :
          AttributesError(shape) = None /\ OperationsError(shape) = None
            => reflected[a] <= 1
    /\ \A t \in Threads :
          Finished(t, "describe") /\ ctx[t].exc # None =>
            AttributesError(shape) # None \/ OperationsError(shape) # None

\* Both threads have the same description from concurrent describes, after
\* one reflection.
C25_Witness ==
    /\ Finished("t1", "describe")
    /\ Finished("t2", "describe")
    /\ ctx["t1"].exc = None
    /\ ctx["t2"].exc = None
    /\ ctx["t1"].ret = ctx["t2"].ret
    /\ reflected["a1"] = 1

\* The description of adapter a is memoized and the channels are wired.
Compiled(a) ==
    /\ beaninfo[a].set
    /\ \A s \in 1..Len(Slots) : FullyWired(slotObj[s])

\* The call of t has returned without an exception.
Succeeded(t) == pc[t] = "done" /\ ctx[t].exc = None /\ ctx[t].err = NoErr

C22_TagRoundTrip ==
    \A t \in Threads :
      LET c == ctx[t]
          f == c.fun
      IN /\ Finished(t, "returns") /\ Len(c.given) = 1 =>
              /\ c.exc = None
              /\ c.gave = f
              /\ tags[f].returns = c.given[1]
              /\ tags = [c.tags0 EXCEPT ![f].returns = c.given[1]]
         /\ Finished(t, "args") =>
              /\ c.exc = None
              /\ c.gave = f
              /\ tags[f].hasArgs
              /\ Len(tags[f].args) = Len(c.given)
              /\ \A k \in 1..Len(c.given) : tags[f].args[k] = c.given[k]
              /\ tags[f].returns = c.tags0[f].returns
              /\ \A g \in Funs \ {f} : tags[g] = c.tags0[g]

\* A function tagged with two declarations is tagged again with other two.
C22_Witness ==
    /\ Finished("t1", "args")
    /\ ctx["t1"].fun = "f"
    /\ ctx["t1"].tags0["f"].args = <<<<"Integer", "Age">>, <<"String">>>>
    /\ ctx["t1"].given = <<<<"String">>, <<"Integer", "Age">>>>
    /\ tags["f"].args = <<<<"String">>, <<"Integer", "Age">>>>
    /\ tags["f"].returns = "Integer"

\* C26: under fair scheduling every call of register, unregister, describe,
\* notification-info and emit (with its sequence-number allocation) that a
\* thread has begun returns, while another thread runs such calls on the
\* same or on another adapter.
C26_EveryCallReturns ==
    \A t \in Threads : (pc[t] # "idle") ~> (pc[t] = "done")

\* A thread inside register holds the register and the compilation lock and
\* is wiring, while the other thread waits for the compilation lock.
C26_Witness ==
    /\ pc["t2"] = "ni_wire"
    /\ ctx["t2"].inReg
    /\ locks["register"] = "t2"
    /\ locks["beaninfo"] = "t2"
    /\ locks["notificationinfo"] = "t2"
    /\ pc["t1"] = "bi_acq"
    /\ ~ctx["t1"].inReg

====
